---- MODULE Spec2Model ----
(***************************************************************************)
(* Model of "3rd Milestone/app.py": the sliding-window RateLimiter and the *)
(* OllamaPDFChatbot generation calls (stream_response, get_response).      *)
(*                                                                         *)
(* Four specifications share the variables: LimiterSpec (the limiter's     *)
(* two methods called one after the other), ConcSpec (allow_request() run  *)
(* by several threads, line by line), Spec (the generation calls of one    *)
(* session) and PromptSpec (_build_prompt as a function of its arguments). *)
(*                                                                         *)
(* Time is an integer clock `now` that never decreases.  The limiter is    *)
(* the deque `requests` with its two parameters.  `calls`, `last` and      *)
(* `prev` are history variables: the log of allow_request() results and    *)
(* the two most recent limiter operations.                                 *)
(***************************************************************************)
EXTENDS Integers, Sequences, FiniteSets

VARIABLES now, requests, max_requests, window, calls, last, prev,
          pc, mode, prompt, retries, attempt, out, http, nread, outcomes,
          admitted, nallow,
          nlines, sent, full_response, errseen, open, susp,
          tpc, tnow, built

limiter == <<requests, max_requests, window, calls, last, prev>>
(* the response being streamed: the number of lines of its body, the text    *)
(* records delivered so far, the accumulated text, the error conditions the *)
(* server has signalled ("status": a non-200 status, "record": a record with *)
(* an error field), the responses not yet closed, and whether the generator  *)
(* is suspended at the yield of a token                                      *)
stream == <<nlines, sent, full_response, errseen, open, susp>>
call == <<pc, mode, prompt, retries, attempt, out, http, nread, outcomes,
          admitted, nallow, stream>>
(* the threads of the concurrent callers and the last prompt assembled *)
side == <<tpc, tnow, built>>
vars == <<now, limiter, call, side>>

(* ------------------------------ bounds --------------------------------- *)
MaxTime == 4
MaxReq == 3
MaxWin == 2
MaxCalls == 5
MaxRetries == 2
MaxLines == 2
NThreads == 2
ConcCalls == 3
MaxExtra == 2
SessionRequests == 2
SessionWindow == 2

(* --------------------------- program constants -------------------------- *)
MaxQuestionLen == 5000
HTTP_OK == 200
ContextBudget == 10000

(* ------------------------------ helpers -------------------------------- *)
Max(a, b) == IF a >= b THEN a ELSE b

NoOp == [op |-> "none", ok |-> FALSE, w |-> 0, at |-> 0, pre |-> <<>>]

(* ---------------------------- RateLimiter ------------------------------ *)
(* Purge with the boundary entry (exactly one window old) dropped as well *)
RECURSIVE PurgeEager(_, _, _)
PurgeEager(reqs, t, win) ==
    IF reqs # <<>> /\ Head(reqs) <= t - win
    THEN PurgeEager(Tail(reqs), t, win)
    ELSE reqs

(* Purge that keeps an entry one tick longer than the window *)
RECURSIVE PurgeLate(_, _, _)
PurgeLate(reqs, t, win) ==
    IF reqs # <<>> /\ Head(reqs) < t - win - 1
    THEN PurgeLate(Tail(reqs), t, win)
    ELSE reqs

(* while self.requests and self.requests[0] < now - self.window: popleft() *)
RECURSIVE Purge(_, _, _)
Purge(reqs, t, win) ==
    IF reqs # <<>> /\ Head(reqs) < t - win
    THEN Purge(Tail(reqs), t, win)
    ELSE reqs

(* allow_request admitting while the deque already holds max_requests *)
allow_request_offbyone(reqs, t, maxr, win) ==
    LET purged == Purge(reqs, t, win) IN
    IF Len(purged) <= maxr
    THEN [ok |-> TRUE, requests |-> Append(purged, t)]
    ELSE [ok |-> FALSE, requests |-> purged]

(* allow_request(): the returned flag and the deque the call leaves behind *)
allow_request(reqs, t, maxr, win) ==
    LET purged == Purge(reqs, t, win) IN
    IF Len(purged) < maxr
    THEN [ok |-> TRUE, requests |-> Append(purged, t)]
    ELSE [ok |-> FALSE, requests |-> purged]

(* get_wait_time without the clamp at zero *)
get_wait_time_noclamp(reqs, t, maxr, win) ==
    IF reqs = <<>> \/ Len(reqs) < maxr
    THEN 0
    ELSE Head(reqs) + win - t

(* get_wait_time that treats a limiter one short of capacity as saturated *)
get_wait_time_early(reqs, t, maxr, win) ==
    IF reqs = <<>> \/ Len(reqs) < maxr - 1
    THEN 0
    ELSE Max(0, Head(reqs) + win - t)

(* get_wait_time(): reads the deque and the clock, changes nothing *)
get_wait_time(reqs, t, maxr, win) ==
    IF reqs = <<>> \/ Len(reqs) < maxr
    THEN 0
    ELSE Max(0, Head(reqs) + win - t)

(* ------------------------------- state --------------------------------- *)
(* a fresh RateLimiter(max_requests, window), and no generation call made yet *)
Fresh(maxr, win) ==
    /\ now = 0
    /\ requests = <<>>
    /\ max_requests = maxr
    /\ window = win
    /\ calls = <<>>
    /\ last = NoOp
    /\ prev = NoOp
    /\ pc = "idle"
    /\ mode = "none"
    /\ prompt = <<>>
    /\ retries = 0
    /\ attempt = 0
    /\ out = <<>>
    /\ http = 0
    /\ nread = 0
    /\ outcomes = <<>>
    /\ admitted = FALSE
    /\ nallow = 0
    /\ nlines = 0
    /\ sent = <<>>
    /\ full_response = <<>>
    /\ errseen = {}
    /\ open = {}
    /\ susp = FALSE
    /\ tpc = [t \in 1..NThreads |-> "idle"]
    /\ tnow = [t \in 1..NThreads |-> 0]
    /\ built = <<>>

Init == \E maxr \in 1..MaxReq, win \in 1..MaxWin : Fresh(maxr, win)

(* time.time() read later returns a later or equal value *)
Tick ==
    /\ now < MaxTime
    /\ pc \in {"idle", "limited"}
    /\ now' = now + 1
    /\ UNCHANGED <<limiter, call, side>>

(* one allow_request() call on the limiter at the current clock value *)
LimiterAllow ==
    LET r == allow_request(requests, now, max_requests, window) IN
    /\ Len(calls) < MaxCalls
    /\ requests' = r.requests
    /\ calls' = Append(calls, [ok |-> r.ok, at |-> now])
    /\ last' = [op |-> "allow", ok |-> r.ok, w |-> 0, at |-> now, pre |-> requests]
    /\ prev' = last

(* one get_wait_time() call on the limiter at the current clock value *)
LimiterWait ==
    /\ requests' = requests
    /\ calls' = calls
    /\ last' = [op |-> "wait", ok |-> FALSE, at |-> now, pre |-> requests,
                w |-> get_wait_time(requests, now, max_requests, window)]
    /\ prev' = last

AllowRequest ==
    /\ LimiterAllow
    /\ UNCHANGED <<now, max_requests, window, call, side>>

GetWaitTime ==
    /\ LimiterWait
    /\ UNCHANGED <<now, max_requests, window, call, side>>

LimiterNext == Tick \/ AllowRequest \/ GetWaitTime

LimiterSpec == Init /\ [][LimiterNext]_vars

(* ---- allow_request() run by several callers on one shared limiter ----    *)
(* The method takes no lock: each line of it is one step of its caller, and  *)
(* the steps of the callers interleave.                                      *)
Threads == 1..NThreads

Active == {u \in Threads : tpc[u] # "idle"}

(* line 50: now = time.time() *)
ThreadStart(t) ==
    /\ tpc[t] = "idle"
    /\ Len(calls) + Cardinality(Active) < ConcCalls
    /\ tnow' = [tnow EXCEPT ![t] = now]
    /\ tpc' = [tpc EXCEPT ![t] = "test"]
    /\ UNCHANGED <<now, limiter, call, built>>

(* line 51, left operand: `self.requests` is non-empty *)
ThreadTest(t) ==
    /\ tpc[t] = "test"
    /\ tpc' = [tpc EXCEPT ![t] = IF requests # <<>> THEN "peek" ELSE "check"]
    /\ UNCHANGED <<now, limiter, call, tnow, built>>

(* line 51, right operand: self.requests[0] < now - self.window; IndexError *)
(* when another caller has emptied the deque meanwhile                      *)
ThreadPeek(t) ==
    /\ tpc[t] = "peek"
    /\ tpc' = [tpc EXCEPT ![t] =
                  IF requests = <<>> THEN "raised"
                  ELSE IF requests[1] < tnow[t] - window THEN "pop"
                  ELSE "check"]
    /\ UNCHANGED <<now, limiter, call, tnow, built>>

(* line 52: self.requests.popleft() *)
ThreadPop(t) ==
    /\ tpc[t] = "pop"
    /\ IF requests = <<>>
       THEN /\ tpc' = [tpc EXCEPT ![t] = "raised"]
            /\ requests' = requests
       ELSE /\ tpc' = [tpc EXCEPT ![t] = "test"]
            /\ requests' = Tail(requests)
    /\ UNCHANGED <<now, max_requests, window, calls, last, prev, call, tnow, built>>

(* line 53: len(self.requests) < self.max_requests; line 56: return False *)
ThreadCheck(t) ==
    /\ tpc[t] = "check"
    /\ IF Len(requests) < max_requests
       THEN /\ tpc' = [tpc EXCEPT ![t] = "append"]
            /\ calls' = calls
       ELSE /\ tpc' = [tpc EXCEPT ![t] = "idle"]
            /\ calls' = Append(calls, [ok |-> FALSE, at |-> tnow[t]])
    /\ UNCHANGED <<now, requests, max_requests, window, last, prev, call, tnow, built>>

(* lines 54-55: self.requests.append(now); return True *)
ThreadAppend(t) ==
    /\ tpc[t] = "append"
    /\ requests' = Append(requests, tnow[t])
    /\ calls' = Append(calls, [ok |-> TRUE, at |-> tnow[t]])
    /\ tpc' = [tpc EXCEPT ![t] = "idle"]
    /\ UNCHANGED <<now, max_requests, window, last, prev, call, tnow, built>>

(* the IndexError leaves allow_request() and reaches its caller *)
ThreadRaise(t) ==
    /\ tpc[t] = "raised"
    /\ tpc' = [tpc EXCEPT ![t] = "idle"]
    /\ calls' = Append(calls, [ok |-> FALSE, at |-> tnow[t]])
    /\ UNCHANGED <<now, requests, max_requests, window, last, prev, call, tnow, built>>

ConcNext ==
    \/ Tick
    \/ \E t \in Threads :
          \/ ThreadStart(t) \/ ThreadTest(t) \/ ThreadPeek(t) \/ ThreadPop(t)
          \/ ThreadCheck(t) \/ ThreadAppend(t) \/ ThreadRaise(t)

ConcSpec == Init /\ [][ConcNext]_vars

(* --------------------------- OllamaPDFChatbot --------------------------- *)
(* A question is a run-length encoded string: a sequence of runs of one      *)
(* character, so that questions of 5000 characters stay small.               *)
Run(c, k) == [c |-> c, k |-> k]

IsSpace(c) == c \in {" ", "\t", "\n"}

(* len(prompt) *)
RECURSIVE StrLen(_)
StrLen(p) == IF p = <<>> THEN 0 ELSE Head(p).k + StrLen(Tail(p))

RECURSIVE LStrip(_)
LStrip(p) ==
    IF p # <<>> /\ IsSpace(Head(p).c) THEN LStrip(Tail(p)) ELSE p

RECURSIVE RStrip(_)
RStrip(p) ==
    IF p # <<>> /\ IsSpace(p[Len(p)].c)
    THEN RStrip(SubSeq(p, 1, Len(p) - 1))
    ELSE p

(* a check of the raw question, with nothing stripped *)
Strip_none(p) == p

(* prompt.strip() *)
Strip(p) == RStrip(LStrip(p))

(* the questions a caller passes *)
Prompts ==
    { <<>>,
      <<Run(" ", 3)>>,
      <<Run("\n", 1), Run(" ", MaxQuestionLen)>>,
      <<Run("a", 1)>>,
      <<Run(" ", 1), Run("a", MaxQuestionLen - 1)>>,
      <<Run(" ", 2), Run("a", MaxQuestionLen - 1)>>,
      <<Run("a", MaxQuestionLen + 1)>> }

(* one emitted chunk (stream_response) or the returned value (get_response); *)
(* n is the number the text embeds, att the attempt that produced it         *)
Chunk(kind, n, a) == [kind |-> kind, n |-> n, att |-> a]

(* what the server may answer to one POST, and what one streamed line holds *)
Statuses == {HTTP_OK, 500}
Exceptions == {"timeout", "connerr", "other"}
LineKinds ==
    {"empty", "malformed", "other", "tok", "error", "tok_error",
     "badtok", "badtok_error"}

(* the limiter consulted before the question is looked at *)
Begin_limiter_first(m, p, r) ==
    LET a == allow_request(requests, now, max_requests, window) IN
    /\ pc = "idle"
    /\ mode' = m
    /\ prompt' = p
    /\ retries' = r
    /\ attempt' = 0
    /\ http' = 0
    /\ nread' = 0
    /\ outcomes' = <<>>
    /\ requests' = a.requests
    /\ nallow' = 1
    /\ admitted' = a.ok
    /\ IF ~a.ok
       THEN /\ out' = <<>>
            /\ pc' = "limited"
       ELSE IF Strip(p) = <<>>
       THEN /\ out' = <<Chunk("invalid", 0, 0)>>
            /\ pc' = "done"
       ELSE IF StrLen(p) > MaxQuestionLen
       THEN /\ out' = <<Chunk("toolong", 0, 0)>>
            /\ pc' = "done"
       ELSE /\ out' = <<>>
            /\ pc' = "post"
    /\ UNCHANGED <<now, max_requests, window, calls, last, prev, stream, side>>

(* the three checks both generation calls make before any network call *)
Begin(m, p, r) ==
    /\ pc = "idle"
    /\ mode' = m
    /\ prompt' = p
    /\ retries' = r
    /\ attempt' = 0
    /\ http' = 0
    /\ nread' = 0
    /\ outcomes' = <<>>
    /\ IF Strip(p) = <<>>
       THEN /\ out' = <<Chunk("invalid", 0, 0)>>
            /\ pc' = "done"
            /\ nallow' = 0
            /\ admitted' = FALSE
            /\ requests' = requests
       ELSE IF StrLen(p) > MaxQuestionLen
       THEN /\ out' = <<Chunk("toolong", 0, 0)>>
            /\ pc' = "done"
            /\ nallow' = 0
            /\ admitted' = FALSE
            /\ requests' = requests
       ELSE LET a == allow_request(requests, now, max_requests, window) IN
            /\ requests' = a.requests
            /\ nallow' = 1
            /\ admitted' = a.ok
            /\ out' = <<>>
            /\ pc' = IF a.ok THEN "post" ELSE "limited"
    /\ UNCHANGED <<now, max_requests, window, calls, last, prev, stream, side>>

(* the rejection message with the wait time read after the failed admission *)
Limited(m) ==
    /\ pc = "limited"
    /\ mode = m
    /\ out' = <<Chunk("ratelimit",
                      get_wait_time(requests, now, max_requests, window), 0)>>
    /\ pc' = "done"
    /\ UNCHANGED <<now, limiter, mode, prompt, retries, attempt, http, nread,
                   outcomes, admitted, nallow, stream, side>>

(* a retry that starts the same attempt again *)
Sleep_noadvance(m) ==
    /\ pc = "sleep"
    /\ mode = m
    /\ \E d \in 0..(MaxTime - now) : now' = now + d
    /\ attempt' = attempt
    /\ pc' = "post"
    /\ UNCHANGED <<limiter, mode, prompt, retries, out, http, nread, outcomes,
                   admitted, nallow, stream, side>>

(* time.sleep(wait) before the next attempt *)
Sleep(m) ==
    /\ pc = "sleep"
    /\ mode = m
    /\ \E d \in 0..(MaxTime - now) : now' = now + d
    /\ attempt' = attempt + 1
    /\ pc' = "post"
    /\ UNCHANGED <<limiter, mode, prompt, retries, out, http, nread, outcomes,
                   admitted, nallow, stream, side>>

(* ---- stream_response ---- *)
(* leaving the `with` block closes the response of attempt a *)
Release_none(o, a) == o

Release(o, a) == o \ {a}

(* the except clauses with a connection error retried like a timeout *)
StreamHandle_retry_connerr(exc) ==
    /\ outcomes' = Append(outcomes, exc)
    /\ susp' = FALSE
    /\ IF exc \in {"timeout", "connerr"}
       THEN IF attempt < retries - 1
            THEN /\ out' = Append(out, Chunk("retry", attempt + 1, attempt))
                 /\ pc' = "sleep"
                 /\ attempt' = attempt
            ELSE /\ out' = Append(out, Chunk("timeout", 0, attempt))
                 /\ pc' = "post"
                 /\ attempt' = attempt + 1
       ELSE /\ out' = Append(out, Chunk("unexpected", 0, attempt))
            /\ pc' = "done"
            /\ attempt' = attempt

(* the except clauses of stream_response *)
StreamHandle(exc) ==
    /\ outcomes' = Append(outcomes, exc)
    /\ susp' = FALSE
    /\ IF exc = "timeout"
       THEN IF attempt < retries - 1
            THEN /\ out' = Append(out, Chunk("retry", attempt + 1, attempt))
                 /\ pc' = "sleep"
                 /\ attempt' = attempt
            ELSE /\ out' = Append(out, Chunk("timeout", 0, attempt))
                 /\ pc' = "post"
                 /\ attempt' = attempt + 1
       ELSE /\ out' = Append(out, Chunk(IF exc = "connerr" THEN "connerr"
                                         ELSE "unexpected", 0, attempt))
            /\ pc' = "done"
            /\ attempt' = attempt

StreamBegin == \E p \in Prompts, r \in 0..MaxRetries : Begin("stream", p, r)

StreamLimited == Limited("stream")

(* session.post(...) of one attempt and the status check; a response that   *)
(* arrives is open until its `with` block is left                           *)
StreamPost ==
    /\ pc = "post"
    /\ mode = "stream"
    /\ attempt < retries
    /\ http' = http + 1
    /\ nread' = 0
    /\ \/ /\ \E exc \in Exceptions : StreamHandle(exc)
          /\ UNCHANGED <<nlines, sent, full_response, open, errseen>>
       \/ \E st \in Statuses :
             IF st # HTTP_OK
             THEN /\ errseen' = errseen \cup {"status"}
                  /\ UNCHANGED <<nlines, sent, full_response>>
                  /\ \/ /\ out' = Append(out, Chunk("httperr", st, attempt))
                        /\ outcomes' = Append(outcomes, "httperr")
                        /\ pc' = "last"
                        /\ open' = open \cup {attempt}
                        /\ UNCHANGED <<attempt, susp>>
                     \/ /\ \E exc \in Exceptions : StreamHandle(exc)
                        /\ open' = Release(open \cup {attempt}, attempt)
             ELSE /\ pc' = "stream"
                  /\ open' = open \cup {attempt}
                  /\ nlines' \in 0..MaxLines
                  /\ sent' = <<>>
                  /\ full_response' = <<>>
                  /\ UNCHANGED <<out, outcomes, attempt, susp, errseen>>
    /\ UNCHANGED <<now, limiter, mode, prompt, retries, admitted, nallow, side>>

(* the text chunks of attempt a emitted so far *)
Tokens(a) == SelectSeq(out, LAMBDA c : c.kind = "tok" /\ c.att = a)

(* the server numbers the text records of one response 1, 2, ...; the token *)
(* of a record is that number                                               *)
NextToken == Chunk("tok", Len(sent) + 1, attempt)

(* what a line of the body is: a JSON object whose `response` is text *)
TextRecord(kind) == kind \in {"tok", "tok_error"}

(* lines 158-162: the lines for which the loop body reaches `yield token`:   *)
(* json.loads succeeds, "response" is a key, and `full_response += token`    *)
(* does not raise                                                            *)
Emits_nontext(kind) == kind \in {"tok", "tok_error", "badtok"}
Emits(kind) == kind \in {"tok", "tok_error"}

(* one line delivered by response.iter_lines() *)
StreamRead ==
    /\ pc = "stream"
    /\ nread < nlines
    /\ nread' = nread + 1
    /\ \E kind \in LineKinds :
          /\ errseen' = IF kind \in {"error", "tok_error", "badtok_error"}
                        THEN errseen \cup {"record"}
                        ELSE errseen
          /\ sent' = IF TextRecord(kind) THEN Append(sent, Len(sent) + 1) ELSE sent
          /\ IF Emits(kind)
             THEN /\ out' = Append(out, NextToken)
                  /\ full_response' = Append(full_response, NextToken.n)
                  /\ susp' = TRUE
                  /\ pc' = IF kind = "tok_error" THEN "errpending" ELSE "stream"
                  /\ UNCHANGED outcomes
             ELSE IF kind = "error"
             THEN /\ out' = Append(out, Chunk("streamerr", 0, attempt))
                  /\ outcomes' = Append(outcomes, "streamerr")
                  /\ pc' = "last"
                  /\ susp' = FALSE
                  /\ UNCHANGED full_response
             ELSE /\ susp' = FALSE
                  /\ UNCHANGED <<out, pc, outcomes, full_response>>
    /\ UNCHANGED <<now, limiter, mode, prompt, retries, attempt, http, admitted,
                   nallow, nlines, open, side>>

(* the record whose token was just yielded also carries an error field *)
StreamErrorChunk ==
    /\ pc = "errpending"
    /\ out' = Append(out, Chunk("streamerr", 0, attempt))
    /\ outcomes' = Append(outcomes, "streamerr")
    /\ pc' = "last"
    /\ susp' = FALSE
    /\ UNCHANGED <<now, limiter, mode, prompt, retries, attempt, http, nread,
                   admitted, nallow, nlines, sent, full_response, errseen,
                   open, side>>

(* the stream closes cleanly: return after one attempt *)
StreamEnd ==
    /\ pc = "stream"
    /\ nread = nlines
    /\ outcomes' = Append(outcomes, "ok")
    /\ pc' = "done"
    /\ open' = Release(open, attempt)
    /\ susp' = FALSE
    /\ UNCHANGED <<now, limiter, mode, prompt, retries, attempt, out, http,
                   nread, admitted, nallow, nlines, sent, full_response,
                   errseen, side>>

(* reading the stream raises *)
StreamRaise ==
    /\ pc = "stream"
    /\ \E exc \in Exceptions : StreamHandle(exc)
    /\ open' = Release(open, attempt)
    /\ UNCHANGED <<now, limiter, mode, prompt, retries, http, nread, admitted,
                   nallow, nlines, sent, full_response, errseen, side>>

(* the generator is resumed after the error chunk it yielded inside the     *)
(* `with` block: return (after break, for a stream error)                   *)
StreamReturn ==
    /\ pc = "last"
    /\ pc' = "done"
    /\ open' = Release(open, attempt)
    /\ UNCHANGED <<now, limiter, mode, prompt, retries, attempt, out, http,
                   nread, outcomes, admitted, nallow, nlines, sent,
                   full_response, errseen, susp, side>>

(* the generator is suspended at a yield *)
Suspended ==
    /\ mode = "stream"
    /\ \/ pc \in {"sleep", "last", "errpending"}
       \/ pc = "stream" /\ susp
       \/ pc = "post" /\ attempt >= retries /\ outcomes # <<>>

(* the caller stops pulling and closes the generator: GeneratorExit is      *)
(* raised at the yield and leaves the `with` block, if inside one           *)
StreamAbandon ==
    /\ Suspended
    /\ pc' = "closed"
    /\ open' = Release(open, attempt)
    /\ susp' = FALSE
    /\ UNCHANGED <<now, limiter, mode, prompt, retries, attempt, out, http,
                   nread, outcomes, admitted, nallow, nlines, sent,
                   full_response, errseen, side>>

StreamSleep == Sleep("stream")

(* range(retries) is exhausted: the generator ends *)
StreamLoopEnd ==
    /\ pc = "post"
    /\ mode = "stream"
    /\ attempt >= retries
    /\ pc' = "done"
    /\ UNCHANGED <<now, limiter, mode, prompt, retries, attempt, out, http,
                   nread, outcomes, admitted, nallow, stream, side>>

(* ---- get_response ---- *)
PostResults ==
    {"timeout", "connerr", "other", "bad_status",
     "json_text", "json_missing", "json_nontext", "json_invalid"}

(* the value get_response returns for a POST that does not time out *)
GetValue(res) ==
    CASE res = "json_text" -> "text"
      [] res = "json_missing" -> "fallback"
      [] res = "json_nontext" -> "nontext"
      [] res = "json_invalid" -> "unexpected"
      [] res = "bad_status" -> "httperr"
      [] res = "connerr" -> "connerr"
      [] res = "other" -> "unexpected"

GetBegin == \E p \in Prompts, r \in 0..MaxRetries : Begin("blocking", p, r)

GetLimited == Limited("blocking")

(* session.post(...) of one attempt and what the call returns for it *)
GetPost ==
    /\ pc = "post"
    /\ mode = "blocking"
    /\ attempt < retries
    /\ http' = http + 1
    /\ \E res \in PostResults :
          /\ outcomes' = Append(outcomes, res)
          /\ IF res = "timeout"
             THEN IF attempt < retries - 1
                  THEN /\ pc' = "sleep"
                       /\ out' = out
                  ELSE /\ pc' = "done"
                       /\ out' = <<Chunk("timeout", 0, attempt)>>
             ELSE /\ pc' = "done"
                  /\ out' = <<Chunk(GetValue(res),
                                    IF res = "bad_status" THEN 500 ELSE 0,
                                    attempt)>>
    /\ UNCHANGED <<now, limiter, mode, prompt, retries, attempt, nread, admitted,
                   nallow, stream, side>>

GetSleep == Sleep("blocking")

(* range(retries) is empty: the function falls off its end and returns None *)
GetLoopEnd ==
    /\ pc = "post"
    /\ mode = "blocking"
    /\ attempt >= retries
    /\ out' = <<Chunk("none", 0, attempt)>>
    /\ pc' = "done"
    /\ UNCHANGED <<now, limiter, mode, prompt, retries, attempt, http, nread,
                   outcomes, admitted, nallow, stream, side>>

(* the caller has the whole result of the call; the next call starts afresh *)
Return ==
    /\ pc \in {"done", "closed"}
    /\ pc' = "idle"
    /\ mode' = "none"
    /\ prompt' = <<>>
    /\ retries' = 0
    /\ attempt' = 0
    /\ out' = <<>>
    /\ http' = 0
    /\ nread' = 0
    /\ outcomes' = <<>>
    /\ admitted' = FALSE
    /\ nallow' = 0
    /\ nlines' = 0
    /\ sent' = <<>>
    /\ full_response' = <<>>
    /\ errseen' = {}
    /\ open' = {}
    /\ susp' = FALSE
    /\ UNCHANGED <<now, limiter, side>>

Next ==
    \/ Tick \/ Return
    \/ StreamBegin \/ StreamLimited \/ StreamPost \/ StreamRead
    \/ StreamErrorChunk \/ StreamEnd \/ StreamRaise \/ StreamReturn
    \/ StreamAbandon \/ StreamSleep \/ StreamLoopEnd
    \/ GetBegin \/ GetLimited \/ GetPost \/ GetSleep \/ GetLoopEnd

(* initialize_session_state(): the session's limiter is built once, with the *)
(* module's RATE_LIMIT_REQUESTS and RATE_LIMIT_WINDOW, here scaled down       *)
SessionInit == Fresh(SessionRequests, SessionWindow)

Spec == SessionInit /\ [][Next]_vars

(* ---- _build_prompt ---- *)
(* Texts are run-length encoded like the questions. A fixed piece of text    *)
(* (a section label with its newline, the boilerplate) is one character of   *)
(* its own, written as the text itself.                                      *)
Fixed(text) == <<Run(text, 1)>>

base_system == Fixed("You are a helpful AI assistant ...")

(* s + t *)
Cat(s, t) ==
    IF s # <<>> /\ t # <<>> /\ s[Len(s)].c = t[1].c
    THEN SubSeq(s, 1, Len(s) - 1)
         \o <<Run(t[1].c, s[Len(s)].k + t[1].k)>>
         \o Tail(t)
    ELSE s \o t

(* a context passed on whole *)
Take_all(s, n) == s

(* s[:n] *)
RECURSIVE Take(_, _)
Take(s, n) ==
    IF s = <<>> \/ n <= 0 THEN <<>>
    ELSE IF Head(s).k <= n
         THEN <<Head(s)>> \o Take(Tail(s), n - Head(s).k)
         ELSE <<Run(Head(s).c, n)>>

(* "\n\n".join(parts) *)
RECURSIVE Join(_)
Join(parts) ==
    IF parts = <<>> THEN <<>>
    ELSE IF Len(parts) = 1 THEN parts[1]
    ELSE Cat(Cat(parts[1], <<Run("\n", 2)>>), Join(Tail(parts)))

build_prompt(p, context, system_prompt) ==
    LET ctx == IF context # <<>>
               THEN <<Cat(Fixed("DOCUMENT CONTEXT:\n"), Take(context, ContextBudget))>>
               ELSE <<>>
        sys == IF system_prompt # <<>>
               THEN <<Cat(Fixed("SYSTEM PROMPT:\n"), system_prompt)>>
               ELSE <<>>
    IN Join(ctx \o sys \o <<Cat(Fixed("QUESTION:\n"), p),
                            Cat(Fixed("INSTRUCTIONS:\n"), base_system)>>)

(* the document contexts and system prompts a caller passes: contexts        *)
(* shorter than, as long as and longer than the budget                       *)
Contexts ==
    {<<>>}
    \cup {<<Run("a", n)>> :
             n \in {1, ContextBudget - 1, ContextBudget, ContextBudget + MaxExtra}}
    \cup {<<Run("a", m), Run("b", k)>> :
             m \in {1, ContextBudget - 1, ContextBudget}, k \in 1..MaxExtra}

SystemPrompts == {<<>>, <<Run("s", 1)>>, <<Run("a", 2), Run(" ", 1)>>}

(* one call of _build_prompt; `built` keeps its arguments and its result *)
BuildPrompt ==
    /\ \E p \in Prompts, c \in Contexts, sp \in SystemPrompts :
          built' = <<[prompt |-> p, context |-> c, system_prompt |-> sp,
                      result |-> build_prompt(p, c, sp)]>>
    /\ UNCHANGED <<now, limiter, call, tpc, tnow>>

PromptNext == BuildPrompt

PromptSpec == SessionInit /\ [][PromptNext]_vars

(* ------------------------ properties: RateLimiter ----------------------- *)
(* the entries of s that are at most one window older than t *)
Retained(s, t) == SelectSeq(s, LAMBDA x : x >= t - window)

(* the deque as it stands when the operation recorded in `last` evaluates it: *)
(* after the purge loop for allow_request, as found for get_wait_time         *)
Evaluated ==
    IF last.op = "allow"
    THEN IF last.ok THEN SubSeq(requests, 1, Len(requests) - 1) ELSE requests
    ELSE last.pre

AdmittedIn(lo, hi) ==
    {i \in DOMAIN calls : calls[i].ok /\ calls[i].at >= lo /\ calls[i].at <= hi}

(* C1: for every instant t, at most max_requests of the allow_request() calls *)
(* that returned true have a timestamp in the trailing interval [t-window, t]. *)
C1_WindowBound ==
    \A t \in 0..MaxTime : Cardinality(AdmittedIn(t - window, t)) <= max_requests

C1_Witness ==
    /\ \E t \in 0..MaxTime :
          /\ Cardinality(AdmittedIn(t - window, t)) = max_requests
          /\ \E i \in DOMAIN calls : calls[i].ok /\ calls[i].at = t - window
          /\ \E i \in DOMAIN calls : ~calls[i].ok /\ calls[i].at = t
    /\ \E i \in DOMAIN calls : calls[i].ok /\ calls[i].at > calls[1].at + window

(* C2: a rejected allow_request() leaves the timestamp sequence exactly as it *)
(* was before the call; an admitted one leaves the purged sequence with the   *)
(* current time appended as its single new, last entry.                       *)
C2_Frame ==
    last.op = "allow" =>
        IF last.ok
        THEN requests = Append(Retained(last.pre, last.at), last.at)
        ELSE requests = last.pre

C2_Witness ==
    /\ last.op = "allow" /\ last.ok
    /\ Len(requests) <= Len(last.pre)
    /\ prev.op = "allow" /\ ~prev.ok /\ prev.pre # <<>>

(* C3: get_wait_time() returns 0 when fewer than max_requests timestamps are  *)
(* retained and max(0, oldest + window - now) otherwise; it is never negative *)
(* and leaves the timestamp sequence unchanged.                               *)
C3_WaitTime ==
    last.op = "wait" =>
        /\ Len(last.pre) < max_requests => last.w = 0
        /\ Len(last.pre) >= max_requests =>
              last.w = Max(0, Head(last.pre) + window - last.at)
        /\ last.w >= 0
        /\ requests = last.pre

C3_Witness ==
    /\ last.op = "wait"
    /\ Len(last.pre) >= max_requests
    /\ Head(last.pre) + window - last.at < 0

(* get_wait_time() called right after an admitting allow_request(), with no   *)
(* clock advance in between                                                   *)
WaitRightAfterAdmit ==
    /\ prev.op = "allow" /\ prev.ok
    /\ last.op = "wait" /\ last.at = prev.at

(* C4 as stated: after an admission on a limiter that held fewer than         *)
(* max_requests timestamps, get_wait_time() at the same clock value returns 0. *)
C4_Original ==
    (WaitRightAfterAdmit /\ Len(prev.pre) < max_requests) => last.w = 0

(* C4 amended: after an admission on a limiter that retained fewer than       *)
(* max_requests - 1 timestamps, so that it is still under capacity after the  *)
(* append, get_wait_time() at the same clock value returns 0.                 *)
C4_UnderCapacity ==
    (WaitRightAfterAdmit /\ Len(Retained(prev.pre, prev.at)) < max_requests - 1)
        => last.w = 0

C4_Witness ==
    /\ WaitRightAfterAdmit
    /\ Retained(prev.pre, prev.at) # <<>>
    /\ Len(Retained(prev.pre, prev.at)) < max_requests - 1
    /\ last.w = 0

(* C5 as stated: right after the allow_request() that brings the retained     *)
(* count to max_requests, get_wait_time() returns w with 0 < w <= window.     *)
C5_Original ==
    (WaitRightAfterAdmit /\ Len(last.pre) = max_requests)
        => (0 < last.w /\ last.w <= window)

(* C5 amended: right after the saturating allow_request(), get_wait_time()    *)
(* returns w = oldest + window - now with 0 <= w <= window; w is 0 exactly    *)
(* when the oldest retained timestamp is a full window old.                   *)
C5_AfterSaturation ==
    (WaitRightAfterAdmit /\ Len(last.pre) = max_requests) =>
        /\ last.w = Head(last.pre) + window - last.at
        /\ 0 <= last.w /\ last.w <= window
        /\ last.w = 0 <=> Head(last.pre) = last.at - window

C5_Witness ==
    /\ WaitRightAfterAdmit
    /\ Len(last.pre) = max_requests
    /\ max_requests >= 2
    /\ 0 < last.w /\ last.w < window

(* C6: from a fresh limiter, of max_requests + 1 successive allow_request()   *)
(* calls made within one window, calls 0..max_requests-1 return true and call *)
(* max_requests returns false.                                                *)
C6_RapidCalls ==
    \A k \in DOMAIN calls :
        (k <= max_requests + 1 /\ calls[k].at - calls[1].at <= window)
            => (calls[k].ok <=> k <= max_requests)

C6_Witness ==
    /\ Len(calls) >= max_requests + 1
    /\ calls[max_requests + 1].at = calls[1].at + window
    /\ ~calls[max_requests + 1].ok
    /\ \A k \in 1..max_requests : calls[k].ok

(* C7: an allow_request() on a saturated limiter at a clock value strictly    *)
(* greater than oldest_timestamp + window returns true.                       *)
C7_Readmit ==
    (/\ last.op = "allow"
     /\ Len(last.pre) >= max_requests
     /\ last.at > Head(last.pre) + window) => last.ok

C7_Witness ==
    /\ last.op = "allow" /\ last.ok
    /\ Len(last.pre) >= max_requests
    /\ last.at = Head(last.pre) + window + 1
    /\ prev.op = "allow" /\ ~prev.ok

(* C8 as stated: at the admission decision of allow_request() and at every    *)
(* get_wait_time() call, every retained timestamp lies in [now-window, now].  *)
C8_Original ==
    last.op \in {"allow", "wait"} =>
        \A i \in DOMAIN Evaluated :
            Evaluated[i] >= last.at - window /\ Evaluated[i] <= last.at

(* C8 amended: at the admission decision of allow_request(), after the purge, *)
(* every retained timestamp lies in [now-window, now]; get_wait_time() does   *)
(* not purge, so there every retained timestamp is at most now but may be     *)
(* older than now - window.                                                   *)
C8_PurgedBeforeDecision ==
    /\ last.op = "allow" =>
          \A i \in DOMAIN Evaluated :
              Evaluated[i] >= last.at - window /\ Evaluated[i] <= last.at
    /\ last.op = "wait" => \A i \in DOMAIN Evaluated : Evaluated[i] <= last.at

C8_Witness ==
    /\ last.op = "allow"
    /\ Len(Evaluated) < Len(last.pre)
    /\ Evaluated # <<>>
    /\ Evaluated[1] = last.at - window

(* ---------------------- properties: generation calls -------------------- *)
Started == mode # "none"
Finished == pc = "done"

(* the limiter was consulted and did not admit *)
RateRejected == nallow = 1 /\ ~admitted

RejectionKinds == {"invalid", "toolong", "ratelimit"}

(* a question that is empty or made of whitespace only *)
Blank(p) == \A i \in DOMAIN p : IsSpace(p[i].c)

(* C9: in stream_response and get_response the checks run in the order       *)
(* empty/whitespace-only question, question longer than 5000 characters,     *)
(* rate limiter; a call rejected by any of them issues no HTTP request and    *)
(* produces exactly one rejection message.                                    *)
C9_LocalReject ==
    Started =>
        /\ IF Blank(prompt)
           THEN /\ pc = "done" /\ out = <<Chunk("invalid", 0, 0)>>
                /\ http = 0 /\ nallow = 0
           ELSE IF StrLen(prompt) > MaxQuestionLen
           THEN /\ pc = "done" /\ out = <<Chunk("toolong", 0, 0)>>
                /\ http = 0 /\ nallow = 0
           ELSE /\ nallow = 1
                /\ RateRejected =>
                      /\ http = 0
                      /\ pc \in {"limited", "done"}
                      /\ pc = "done" =>
                            (Len(out) = 1 /\ out[1].kind = "ratelimit")
                /\ ~RateRejected =>
                      \A i \in DOMAIN out : out[i].kind \notin RejectionKinds
        /\ \A i \in DOMAIN out :
              out[i].kind \in RejectionKinds => (Len(out) = 1 /\ http = 0)

C9_Witness ==
    /\ Finished
    /\ Blank(prompt)
    /\ StrLen(prompt) > MaxQuestionLen
    /\ Len(requests) = max_requests
    /\ get_wait_time(requests, now, max_requests, window) > 0
    /\ out = <<Chunk("invalid", 0, 0)>>

(* the number of leading timeouts among the attempts of the call *)
RECURSIVE LeadingTimeouts(_)
LeadingTimeouts(o) ==
    IF o # <<>> /\ Head(o) = "timeout" THEN 1 + LeadingTimeouts(Tail(o)) ELSE 0

(* the output the claim describes: k retry notices, then `rest` *)
RetryNoticesThen(k, rest) ==
    [i \in 1..k |-> Chunk("retry", i, i - 1)] \o rest

(* C10: in stream_response with retries = n >= 1, k < n timed-out attempts    *)
(* followed by a successful attempt give exactly k retry notices followed by  *)
(* the successful attempt's text chunks; n timed-out attempts give exactly    *)
(* n-1 retry notices followed by one terminal timeout message; no attempt is  *)
(* issued after the success or after the n-th timeout.                        *)
C10_RetryOutput ==
    (Finished /\ mode = "stream" /\ retries >= 1 /\ outcomes # <<>>) =>
        LET k == LeadingTimeouts(outcomes) IN
        /\ (k < retries /\ outcomes[Len(outcomes)] = "ok") =>
              /\ Len(outcomes) = k + 1
              /\ http = k + 1
              /\ out = RetryNoticesThen(k, Tokens(k))
        /\ k = retries =>
              /\ Len(outcomes) = retries
              /\ http = retries
              /\ out = RetryNoticesThen(retries - 1,
                                        <<Chunk("timeout", 0, retries - 1)>>)

(* C10 restricted to calls in which no timed-out attempt had delivered text:  *)
(* there the output is as C10 describes.                                      *)
NoPartialText ==
    \A i \in DOMAIN out :
        out[i].kind = "tok" =>
            (out[i].att + 1 <= Len(outcomes) => outcomes[out[i].att + 1] # "timeout")

C10_RetryOutputNoPartialText == NoPartialText => C10_RetryOutput

(* C11: in stream_response and get_response a connection refusal on any       *)
(* attempt produces exactly one fatal connection-error message and ends the   *)
(* call: no HTTP request is issued afterwards, whatever retries is and        *)
(* however many timeouts preceded it.                                         *)
C11_ConnectionFatal ==
    \A i \in DOMAIN outcomes :
        outcomes[i] = "connerr" =>
            /\ i = Len(outcomes)
            /\ http = i
            /\ pc = "done"
            /\ out # <<>>
            /\ out[Len(out)] = Chunk("connerr", 0, i - 1)
            /\ \A j \in DOMAIN out : out[j].kind = "connerr" => j = Len(out)
            /\ mode = "blocking" => Len(out) = 1
            /\ \A j \in 1..(i - 1) : outcomes[j] = "timeout"

C11_Witness ==
    /\ Finished
    /\ mode = "stream"
    /\ retries = 2
    /\ outcomes = <<"timeout", "connerr">>
    /\ http = 2

(* the chunks of one kind in the output of the current call *)
ChunksOf(kind) == SelectSeq(out, LAMBDA c : c.kind = kind)

(* the output holds exactly one chunk of this kind, the chunk is the last    *)
(* one, and no POST was issued after the attempt that emitted it             *)
EndsWith(kind) ==
    /\ Len(ChunksOf(kind)) = 1
    /\ out[Len(out)].kind = kind
    /\ http = out[Len(out)].att + 1

(* C12: in stream_response a non-200 status yields exactly one error chunk   *)
(* and ends the call; a stream record with an `error` field yields one error *)
(* chunk and no further record of that response is read; in both cases no    *)
(* further attempt is made.                                                  *)
C12_ErrorEndsCall ==
    /\ "status" \in errseen =>
          /\ pc \in {"last", "done", "closed"}
          /\ EndsWith("httperr")
    /\ "record" \in errseen =>
          /\ pc \in {"errpending", "last", "done", "closed"}
          /\ pc \in {"last", "done"} => EndsWith("streamerr")

(* the kinds of text get_response is specified to return: the rejections of  *)
(* its precondition checks and the results of an attempt                     *)
ReturnKinds ==
    RejectionKinds \cup
    {"text", "fallback", "httperr", "timeout", "connerr", "unexpected"}

(* C13: every call of get_response, for any prompt, any retries and any      *)
(* server behaviour, returns one text string of the listed kinds; it never   *)
(* returns a non-text value.                                                 *)
C13_ReturnsText ==
    (Finished /\ mode = "blocking") =>
        /\ Len(out) = 1
        /\ out[1].kind \in ReturnKinds

(* C14: when several callers run allow_request() concurrently on one shared  *)
(* limiter, under every interleaving of their steps at most max_requests     *)
(* calls are admitted per window and the retained count never exceeds        *)
(* max_requests.                                                             *)
C14_Atomic ==
    /\ Len(requests) <= max_requests
    /\ \A t \in 0..MaxTime :
          Cardinality(AdmittedIn(t - window, t)) <= max_requests

(* the values of a sequence of chunks *)
Values(chunks) == [i \in DOMAIN chunks |-> chunks[i].n]

LastOutcome == IF outcomes = <<>> THEN "none" ELSE outcomes[Len(outcomes)]

(* C15: within one status-200 attempt of stream_response the emitted text    *)
(* chunks are exactly the `response` values of the text records that arrived,*)
(* in arrival order; a malformed line emits nothing and does not stop the    *)
(* reading of later lines (a cleanly ended attempt has read every line); the *)
(* concatenation of the emitted chunks is the accumulated full text.         *)
C15_TextInOrder ==
    /\ (mode = "stream" /\ pc \in {"stream", "errpending"}) =>
          /\ Values(Tokens(attempt)) = sent
          /\ full_response = sent
    /\ (Finished /\ LastOutcome = "ok") =>
          /\ Values(Tokens(attempt)) = sent
          /\ full_response = sent
          /\ nread = nlines

C15_Witness ==
    /\ Finished
    /\ LastOutcome = "ok"
    /\ nlines = 2
    /\ Len(Tokens(attempt)) = 1
    /\ Len(out) = 1

(* the generator of stream_response is between its first POST and its end *)
Running == mode = "stream" /\ pc \in {"post", "sleep", "stream", "errpending", "last"}

(* steps left in one attempt, at most: the POST, two per line of the body,   *)
(* the end of the stream, the chunk after it                                 *)
AttemptWeight == 2 * MaxLines + 6

(* a measure of what the call can still do: the attempts left, then the      *)
(* position in the current attempt                                           *)
Rank ==
    IF ~Running THEN 0
    ELSE (IF retries > attempt THEN retries - attempt ELSE 0) * AttemptWeight
         + CASE pc = "post" -> AttemptWeight - 1
             [] pc = "stream" -> 2 * (nlines - nread) + 3
             [] pc = "errpending" -> 2
             [] pc = "last" -> 1
             [] pc = "sleep" -> 0

(* C16: every call of stream_response terminates after at most `retries`     *)
(* HTTP attempts and finitely many chunks: each step of the running          *)
(* generator emits at most one chunk and decreases a natural-number measure, *)
(* never more than `retries` POSTs are issued, and the attempt number only   *)
(* advances by one, through a timeout.                                       *)
C16_Terminates ==
    [][Running =>
          /\ Rank' < Rank
          /\ Rank' >= 0
          /\ http' <= retries
          /\ Len(out') <= Len(out) + 1
          /\ attempt' # attempt =>
                /\ attempt' = attempt + 1
                /\ LastOutcome' = "timeout"
                /\ pc' = "post"]_vars

C16_Witness ==
    /\ Finished
    /\ mode = "stream"
    /\ retries = 2
    /\ http = retries
    /\ outcomes = <<"timeout", "ok">>
    /\ Len(out) = 3

(* C17: in stream_response the response opened by an attempt is released on  *)
(* every way of leaving the attempt, the caller closing the generator        *)
(* included: only the current attempt's response is ever open, and none is   *)
(* open when an attempt starts, between attempts, or when the call has ended.*)
C17_Released ==
    /\ open \subseteq {attempt}
    /\ pc \in {"idle", "limited", "post", "sleep", "done", "closed"} => open = {}

(* the caller closed the generator after a text chunk of the second attempt, *)
(* the first attempt having timed out while its body was read                *)
C17_Witness ==
    /\ pc = "closed"
    /\ attempt = 1
    /\ Tokens(0) # <<>>
    /\ Tokens(1) # <<>>
    /\ nread < nlines
    /\ open = {}

(* the pieces of a text between its blank-line separators *)
RECURSIVE SplitAcc(_, _, _)
SplitAcc(s, cur, acc) ==
    IF s = <<>> THEN Append(acc, cur)
    ELSE IF Head(s) = Run("\n", 2)
         THEN SplitAcc(Tail(s), <<>>, Append(acc, cur))
         ELSE SplitAcc(Tail(s), Append(cur, Head(s)), acc)

Sections(s) == SplitAcc(s, <<>>, <<>>)

(* p is a leading part of s *)
IsPrefix(p, s) ==
    \/ p = <<>>
    \/ /\ Len(p) <= Len(s)
       /\ \A j \in 1..(Len(p) - 1) : p[j] = s[j]
       /\ p[Len(p)].c = s[Len(p)].c
       /\ p[Len(p)].k >= 1
       /\ p[Len(p)].k <= s[Len(p)].k

(* the labels a prompt must show for these arguments, in order *)
ExpectedLabels(b) ==
    (IF b.context # <<>> THEN <<"DOCUMENT CONTEXT:\n">> ELSE <<>>)
    \o (IF b.system_prompt # <<>> THEN <<"SYSTEM PROMPT:\n">> ELSE <<>>)
    \o <<"QUESTION:\n", "INSTRUCTIONS:\n">>

(* what a section labelled `label` must hold after its label *)
BodyOk(b, label, body) ==
    CASE label = "DOCUMENT CONTEXT:\n" ->
            /\ IsPrefix(body, b.context)
            /\ StrLen(body) = IF StrLen(b.context) < ContextBudget
                              THEN StrLen(b.context) ELSE ContextBudget
      [] label = "SYSTEM PROMPT:\n" -> body = b.system_prompt
      [] label = "QUESTION:\n" -> body = b.prompt
      [] label = "INSTRUCTIONS:\n" -> body = base_system

(* C18: _build_prompt returns the sections DOCUMENT CONTEXT (only for a      *)
(* non-empty context), SYSTEM PROMPT (only when non-empty), QUESTION and     *)
(* INSTRUCTIONS, in that order, joined by a blank line; the context section  *)
(* holds exactly the first 10,000 characters of the context, verbatim.       *)
C18_PromptSections ==
    \A i \in DOMAIN built :
        LET b == built[i]
            secs == Sections(b.result)
        IN /\ [j \in DOMAIN secs |-> secs[j][1].c] = ExpectedLabels(b)
           /\ \A j \in DOMAIN secs :
                 /\ secs[j][1].k = 1
                 /\ BodyOk(b, secs[j][1].c, Tail(secs[j]))

C18_Witness ==
    /\ built # <<>>
    /\ built[1].context = <<Run("a", ContextBudget - 1), Run("b", MaxExtra)>>
    /\ built[1].system_prompt # <<>>
    /\ Len(Sections(built[1].result)) = 4
    /\ Tail(Sections(built[1].result)[1]) = <<Run("a", ContextBudget - 1), Run("b", 1)>>

(* C19: each call of stream_response or get_response invokes the shared      *)
(* limiter's allow_request() at most once: not at all for an empty or too    *)
(* long question (the timestamps are then unchanged) and exactly once        *)
(* otherwise; an admitted call adds exactly one timestamp, and nothing in    *)
(* the rest of the call (retries, any outcome) touches the limiter.          *)
C19_OneAdmission ==
    [][/\ nallow' <= 1
       /\ (pc = "idle" /\ pc' # "idle") =>
             IF Blank(prompt') \/ StrLen(prompt') > MaxQuestionLen
             THEN /\ nallow' = 0
                  /\ requests' = requests
             ELSE /\ nallow' = 1
                  /\ requests' = IF admitted'
                                 THEN Append(Retained(requests, now), now)
                                 ELSE Retained(requests, now)
       /\ pc # "idle" =>
             /\ requests' = requests
             /\ pc' # "idle" => (nallow' = nallow /\ admitted' = admitted)]_vars

C19_Witness ==
    /\ Finished
    /\ mode = "blocking"
    /\ admitted
    /\ nallow = 1
    /\ outcomes = <<"timeout", "timeout">>
    /\ requests = <<now>>

(* C20: in stream_response all text chunks of one call come from a single    *)
(* attempt: text read during an attempt that ends in a timeout is never      *)
(* delivered to the caller.                                                  *)
C20_SingleAttemptText ==
    mode = "stream" =>
        /\ \A i, j \in DOMAIN out :
              (out[i].kind = "tok" /\ out[j].kind = "tok") => out[i].att = out[j].att
        /\ \A i \in DOMAIN outcomes :
              outcomes[i] = "timeout" => Tokens(i - 1) = <<>>

============================================================================
